---- MODULE Spec2Model ----
(***************************************************************************)
(* File System Galaxy (agent-vis): the index-stable file-system model of   *)
(* frontend/src/fs_model.rs, its live reconciliation in                    *)
(* frontend/src/main.rs (update_file_system), and the agent lifecycle      *)
(* engine of frontend/src/agent.rs.                                        *)
(*                                                                         *)
(* Node indices are 0-based as in the Rust code: node i of the vector is   *)
(* model.nodes[i + 1] here.  Option<usize>::None is the value None.        *)
(* Time is counted in tenths of a second.                                  *)
(***************************************************************************)
EXTENDS Integers, Sequences, FiniteSets, TLC

\* ---------------------------------------------------------------- bounds
\* Longest node vector the environment is allowed to drive the model to.
MaxNodes == 3
\* Most watcher events waiting in the channel at once.
MaxFsQueue == 1
\* Most agent events the WebSocket client delivers in one run.
MaxWsEvents == 2
\* Most agent events of the runs whose progress is checked.
MaxLiveEvents == 1
\* Most notifications posted to the server.
MaxPosts == 4
\* Most WebSocket connections the server gets.
MaxSubscribers == 2
\* The messages the broadcast channel retains: the 256 of the server's
\* broadcast::channel(256), scaled down to what a run of MaxPosts can exceed.
BroadcastCapacity == 2
\* Most mock sessions the server spawns.
MaxMockSessions == 3
\* Most returns of connect and socket.read the client thread sees.
MaxClientSteps == 4
\* run_mock_sessions draws its limit as MIN_CONCURRENT + random % CONCURRENT_CHOICES.
MIN_CONCURRENT == 2
CONCURRENT_CHOICES == 3
\* run_single_session draws its number of actions as MIN_ACTIONS + random % ACTION_CHOICES.
MIN_ACTIONS == 4
ACTION_CHOICES == 9
\* Most tool-use events recorded in the event histories.
MaxHistoryEvents == 11

\* ------------------------------------------------------------- constants
None == -1

\* agent.rs, in tenths of a second.
SPAWN_DURATION == 5
DESPAWN_DURATION == 5
IDLE_TIMEOUT == 50
MOVE_SPEED == 12
\* Most entries kept in a node's event history.
HISTORY_CAP == 10

\* ----------------------------------------------------------------- paths
\* A path is the sequence of its components below the file-system root.
Root == <<"r">>

Paths ==
    { Root,
      <<"r", ".gitignore">>,
      <<"r", "src">>,
      <<"r", "src", "main.rs">> }

\* What Path::is_dir() answers for a path of the watched tree.
DirPaths == { Root, <<"r", "src">> }

PathParent(p) == SubSeq(p, 1, Len(p) - 1)

FileName(p) == p[Len(p)]

is_gitignore_file(path) == FileName(path) = ".gitignore"

\* ---------------------------------------------------------- FileSystemModel
FileSystemModel_new == [nodes |-> <<>>, path_to_index |-> <<>>, root |-> None]

HasPath(m, path) == path \in DOMAIN m.path_to_index

add_node_internal(m, path, name, is_dir, depth) ==
    LET index  == Len(m.nodes)
        parent == IF HasPath(m, PathParent(path))
                  THEN m.path_to_index[PathParent(path)]
                  ELSE None
        node   == [path |-> path, name |-> name, is_dir |-> is_dir,
                   depth |-> depth, children |-> <<>>, parent |-> parent]
        pushed == Append(m.nodes, node)
        pti    == [q \in (DOMAIN m.path_to_index) \cup {path} |->
                      IF q = path THEN index ELSE m.path_to_index[q]]
    IN  [model |->
            [nodes |-> IF parent # None
                       THEN [pushed EXCEPT ![parent + 1].children = Append(@, index)]
                       ELSE pushed,
             path_to_index |-> pti,
             root |-> IF parent # None THEN m.root ELSE index],
         ret |-> index]

\* Mutant of add_node: the new node takes its parent's depth.
add_node_depth_of_parent(m, path, is_dir) ==
    IF HasPath(m, path)
    THEN [model |-> m, ret |-> None]
    ELSE LET depth == IF HasPath(m, PathParent(path))
                      THEN m.nodes[m.path_to_index[PathParent(path)] + 1].depth
                      ELSE 0
         IN  add_node_internal(m, path, FileName(path), is_dir, depth)

\* Mutant of add_node: no check that the path is already indexed.
add_node_unchecked(m, path, is_dir) ==
    LET depth == IF HasPath(m, PathParent(path))
                 THEN m.nodes[m.path_to_index[PathParent(path)] + 1].depth + 1
                 ELSE 0
    IN  add_node_internal(m, path, FileName(path), is_dir, depth)

\* Mutant of add_node: an indexed path is linked to its parent once more.
add_node_relinks(m, path, is_dir) ==
    IF HasPath(m, path)
    THEN LET index      == m.path_to_index[path]
             parent_idx == m.nodes[index + 1].parent
         IN  [model |-> IF parent_idx # None
                        THEN [m EXCEPT !.nodes[parent_idx + 1].children =
                                 Append(@, index)]
                        ELSE m,
              ret |-> None]
    ELSE LET depth == IF HasPath(m, PathParent(path))
                      THEN m.nodes[m.path_to_index[PathParent(path)] + 1].depth + 1
                      ELSE 0
         IN  add_node_internal(m, path, FileName(path), is_dir, depth)

add_node(m, path, is_dir) ==
    IF HasPath(m, path)
    THEN [model |-> m, ret |-> None]
    ELSE LET depth == IF HasPath(m, PathParent(path))
                      THEN m.nodes[m.path_to_index[PathParent(path)] + 1].depth + 1
                      ELSE 0
         IN  add_node_internal(m, path, FileName(path), is_dir, depth)

\* Mutant of remove_node: the node stays in its parent's child list.
remove_node_keeps_parent_link(m, path) ==
    IF ~HasPath(m, path)
    THEN [model |-> m, ret |-> None]
    ELSE LET index == m.path_to_index[path]
             pti   == [q \in (DOMAIN m.path_to_index) \ {path} |-> m.path_to_index[q]]
         IN  [model |-> [nodes |-> [m.nodes EXCEPT ![index + 1].children = <<>>],
                         path_to_index |-> pti,
                         root |-> m.root],
              ret |-> index]

\* Mutant of remove_node: the slot is taken out of the vector (Vec::remove),
\* so later slots move down while path_to_index keeps their old indices.
remove_node_vec_remove(m, path) ==
    IF ~HasPath(m, path)
    THEN [model |-> m, ret |-> None]
    ELSE LET index      == m.path_to_index[path]
             pti        == [q \in (DOMAIN m.path_to_index) \ {path} |->
                               m.path_to_index[q]]
             parent_idx == m.nodes[index + 1].parent
             detached   == IF parent_idx # None
                           THEN [m.nodes EXCEPT ![parent_idx + 1].children =
                                    SelectSeq(@, LAMBDA idx : idx # index)]
                           ELSE m.nodes
         IN  [model |-> [nodes |-> SubSeq(detached, 1, index)
                                      \o SubSeq(detached, index + 2, Len(detached)),
                         path_to_index |-> pti,
                         root |-> m.root],
              ret |-> index]

\* Mutant of remove_node: a removed last slot is popped off the vector.
remove_node_compacting(m, path) ==
    IF ~HasPath(m, path)
    THEN [model |-> m, ret |-> None]
    ELSE LET index      == m.path_to_index[path]
             pti        == [q \in (DOMAIN m.path_to_index) \ {path} |->
                               m.path_to_index[q]]
             parent_idx == m.nodes[index + 1].parent
             detached   == IF parent_idx # None
                           THEN [m.nodes EXCEPT ![parent_idx + 1].children =
                                    SelectSeq(@, LAMBDA idx : idx # index)]
                           ELSE m.nodes
             cleared    == [detached EXCEPT ![index + 1].children = <<>>]
         IN  [model |-> [nodes |-> IF index + 1 = Len(cleared)
                                   THEN SubSeq(cleared, 1, index)
                                   ELSE cleared,
                         path_to_index |-> pti,
                         root |-> m.root],
              ret |-> index]

remove_node(m, path) ==
    IF ~HasPath(m, path)
    THEN [model |-> m, ret |-> None]
    ELSE LET index      == m.path_to_index[path]
             pti        == [q \in (DOMAIN m.path_to_index) \ {path} |->
                               m.path_to_index[q]]
             parent_idx == m.nodes[index + 1].parent
             detached   == IF parent_idx # None
                           THEN [m.nodes EXCEPT ![parent_idx + 1].children =
                                    SelectSeq(@, LAMBDA idx : idx # index)]
                           ELSE m.nodes
         IN  [model |-> [nodes |-> [detached EXCEPT ![index + 1].children = <<>>],
                         path_to_index |-> pti,
                         root |-> m.root],
              ret |-> index]

get_node_by_path(m, path) == IF HasPath(m, path) THEN m.path_to_index[path] ELSE None

total_nodes(m) == Len(m.nodes)

\* The walk of build_initial hands over entries parents first; an entry's
\* depth is its distance from the walk's root.
RECURSIVE build_from(_, _)
build_from(m, walk) ==
    IF walk = <<>> THEN m
    ELSE LET path == Head(walk)
         IN  build_from(add_node_internal(m, path, FileName(path),
                                          path \in DirPaths, Len(path) - 1).model,
                        Tail(walk))

build_initial(walk) == build_from(FileSystemModel_new, walk)

\* Traversal orders of the trees the program is started on.
InitialWalks ==
    { <<Root>>,
      <<Root, <<"r", ".gitignore">>>>,
      <<Root, <<"r", "src">>, <<"r", "src", "main.rs">>>> }

\* ------------------------------------------------------- ignore rules
\* Outcomes of running `git check-ignore -q <path>`: exit status 0 (ignored),
\* a non-zero exit status (not ignored), or the command could not be run.
CheckIgnoreOutcomes == {"exit_zero", "exit_nonzero", "spawn_error"}

\* Mutant of is_ignored: a check that could not be run counts as ignored.
is_ignored_fails_closed(outcome) ==
    IF outcome = "spawn_error" THEN TRUE ELSE outcome = "exit_zero"

is_ignored(outcome) ==
    IF outcome = "spawn_error" THEN FALSE ELSE outcome = "exit_zero"

\* What can be on disk below the watched root when a walk starts (nothing at
\* all once the root itself is gone), and the paths the ignore rules match.
DiskTrees == { S \in SUBSET Paths : \A p \in S : p = Root \/ PathParent(p) \in S }

IgnoreRules == SUBSET { <<"r", "src">>, <<"r", "src", "main.rs">> }

\* The filtered walk: a path is yielded when it exists and neither it nor a
\* directory above it is ignored (an ignored directory is not descended into).
get_valid_paths(on_disk, ignored) ==
    { p \in on_disk : \A k \in 1..Len(p) : SubSeq(p, 1, k) \in on_disk \ ignored }

\* Every order in which the elements of a hash set or map can be iterated.
IterationOrders(S) ==
    { f \in [1..Cardinality(S) -> S] : \A i, j \in 1..Cardinality(S) : f[i] = f[j] => i = j }

\* ---------------------------------------------------------------- state
VARIABLES
    model,              \* FileSystemState.model
    entity_map,         \* FileSystemState.entity_map: the node indices that have a star
    event_receiver,     \* FileSystemState.event_receiver: watcher events in flight
    gitignore_changed,  \* update_file_system's local flag
    fs_pc,              \* "draining" while update_file_system is in its receive loop
    fs_last,            \* the last call made on the model and what it returned
    check_last,         \* the outcome of the ignore check of the loop turn just made
    receiver,           \* WsClientState.receiver: agent events in flight
    ws_sent,            \* how many agent events the WebSocket client has sent
    registry,           \* AgentRegistry.map: session id -> entity
    agents,             \* the Agent component of every agent entity of the world
    next_entity,        \* the next entity id Commands::spawn reserves
    event_history,      \* FileEventHistory.map: node index -> events
    arrived_events,     \* AgentArrivedEvent messages of the last agent_state_machine run
    frame_pc,           \* the system of the chained agent systems that runs next
    ws_last,            \* what the run of process_ws_events just made did, event by event
    expected_visits,    \* per session: the resolved ToolUse targets not yet arrived at
    channel,            \* the server's broadcast channel: every message sent, in order
    subscribers,        \* the WebSocket connections of the server, in order of arrival
    ws_pc,              \* where the WebSocket client thread is in its loop
    ws_log,             \* what connect and socket.read have returned to the thread
    mock_pc,            \* where run_mock_sessions is
    max_concurrent,     \* its limit of concurrent sessions, 0 until drawn
    session_counter,    \* the number of mock sessions spawned so far
    handles             \* the tasks of the mock sessions it keeps, in spawn order

fs_vars == <<model, entity_map, event_receiver, gitignore_changed, fs_pc, fs_last,
            check_last>>

agent_vars == <<receiver, ws_sent, registry, agents, next_entity, event_history,
                arrived_events, frame_pc, ws_last, expected_visits>>

server_vars == <<channel, subscribers>>

client_vars == <<ws_pc, ws_log>>

mock_vars == <<mock_pc, max_concurrent, session_counter, handles>>

vars == <<model, entity_map, event_receiver, gitignore_changed, fs_pc, fs_last,
          check_last,
          receiver, ws_sent, registry, agents, next_entity, event_history,
          arrived_events, frame_pc, ws_last, expected_visits,
          channel, subscribers, ws_pc, ws_log,
          mock_pc, max_concurrent, session_counter, handles>>

\* The events the watcher callback sends.  A Modified event matters to
\* update_file_system only through its file name.
FsEvents ==
    { [kind |-> "Created", path |-> p, is_dir |-> (p \in DirPaths)] : p \in Paths } \cup
    [kind : {"Deleted"}, path : Paths] \cup
    [kind : {"Modified"}, path : {<<"r", ".gitignore">>, <<"r", "src", "main.rs">>}]

NoCall == [op |-> "none"]

\* setup_galaxy: one star per node of the initial model.
setup_galaxy(m) == 0 .. (total_nodes(m) - 1)

InitFs ==
    /\ \E walk \in InitialWalks : model = build_initial(walk)
    /\ entity_map = setup_galaxy(model)
    /\ event_receiver = <<>>
    /\ gitignore_changed = FALSE
    /\ fs_pc = "idle"
    /\ fs_last = NoCall
    /\ check_last = "none"

\* --------------------------------------------------------------- watcher
CreatedInFlight == Len(SelectSeq(event_receiver, LAMBDA e : e.kind = "Created"))

\* The watcher thread sends one event into the unbounded channel.
WatcherSend ==
    /\ Len(event_receiver) < MaxFsQueue
    /\ \E e \in FsEvents :
          /\ e.kind = "Created" => total_nodes(model) + CreatedInFlight < MaxNodes
          /\ event_receiver' = Append(event_receiver, e)
    /\ UNCHANGED <<model, entity_map, gitignore_changed, fs_pc, fs_last, check_last>>
    /\ UNCHANGED <<agent_vars, server_vars, client_vars, mock_vars>>

\* ---------------------------------------------------- update_file_system
SpawnStar(result, stars) ==
    IF result.ret # None THEN stars \cup {result.ret} ELSE stars

\* Mutant of DespawnStar: the star map keeps the entry of a removed node.
DespawnStar_keeps_entry(result, stars) == stars

DespawnStar(result, stars) ==
    IF result.ret # None THEN stars \ {result.ret} ELSE stars

\* update_file_system runs once a frame, in no fixed order with the agent
\* systems; each turn of its receive loop is one step, and FsFinish ends it.

\* One turn of the receive loop on a Created event.
FsCreated ==
    /\ event_receiver # <<>>
    /\ Head(event_receiver).kind = "Created"
    /\ LET e == Head(event_receiver) IN
       \E outcome \in CheckIgnoreOutcomes :
          /\ gitignore_changed' = (gitignore_changed \/ is_gitignore_file(e.path))
          /\ check_last' = outcome
          /\ IF is_ignored(outcome)
             THEN UNCHANGED <<model, entity_map, fs_last>>
             ELSE LET r == add_node(model, e.path, e.is_dir) IN
                  /\ model' = r.model
                  /\ entity_map' = SpawnStar(r, entity_map)
                  /\ fs_last' = [op |-> "add_node", ret |-> r.ret]
    /\ event_receiver' = Tail(event_receiver)
    /\ fs_pc' = "draining"
    /\ UNCHANGED <<agent_vars, server_vars, client_vars, mock_vars>>

\* One turn of the receive loop on a Deleted event.
FsDeleted ==
    /\ event_receiver # <<>>
    /\ Head(event_receiver).kind = "Deleted"
    /\ LET e == Head(event_receiver)
           r == remove_node(model, e.path) IN
          /\ gitignore_changed' = (gitignore_changed \/ is_gitignore_file(e.path))
          /\ model' = r.model
          /\ entity_map' = DespawnStar(r, entity_map)
          /\ fs_last' = [op |-> "remove_node", ret |-> r.ret]
    /\ check_last' = "none"
    /\ event_receiver' = Tail(event_receiver)
    /\ fs_pc' = "draining"
    /\ UNCHANGED <<agent_vars, server_vars, client_vars, mock_vars>>

\* One turn of the receive loop on a Modified event.
FsModified ==
    /\ event_receiver # <<>>
    /\ Head(event_receiver).kind = "Modified"
    /\ gitignore_changed' = (gitignore_changed \/ is_gitignore_file(Head(event_receiver).path))
    /\ check_last' = "none"
    /\ event_receiver' = Tail(event_receiver)
    /\ fs_pc' = "draining"
    /\ UNCHANGED <<agent_vars, server_vars, client_vars, mock_vars>>
    /\ UNCHANGED <<model, entity_map, fs_last>>

\* The removal loop of the reconciliation, over paths_to_remove in order.
RECURSIVE RemoveAll(_, _)
RemoveAll(st, paths) ==
    IF paths = <<>> THEN st
    ELSE LET r == remove_node(st.model, Head(paths))
         IN  RemoveAll([model |-> r.model, stars |-> DespawnStar(r, st.stars)],
                       Tail(paths))

\* The adding loop of the reconciliation, over valid_paths in iteration order.
RECURSIVE AddAll(_, _)
AddAll(st, paths) ==
    IF paths = <<>> THEN st
    ELSE LET path == Head(paths)
             r    == IF ~HasPath(st.model, path)
                     THEN add_node(st.model, path, path \in DirPaths)
                     ELSE [model |-> st.model, ret |-> None]
         IN  AddAll([model |-> r.model, stars |-> SpawnStar(r, st.stars)],
                    Tail(paths))

\* Mutant of paths_to_remove: stale directories are left in place.
paths_to_remove_files_only(m, valid_paths) ==
    { p \in DOMAIN m.path_to_index : p \notin valid_paths /\ p \notin DirPaths }

paths_to_remove(m, valid_paths) == { p \in DOMAIN m.path_to_index : p \notin valid_paths }

Reconcile(st, valid_paths, remove_order, add_order) ==
    AddAll(RemoveAll(st, remove_order), add_order)

\* The receive loop finds the channel empty; with gitignore_changed set the
\* model is reconciled against a fresh walk before the system returns.
FsFinish ==
    /\ event_receiver = <<>>
    /\ IF gitignore_changed
       THEN \E on_disk \in DiskTrees, ignored \in IgnoreRules :
               LET valid_paths == get_valid_paths(on_disk, ignored)
                   stale       == paths_to_remove(model, valid_paths)
               IN  /\ total_nodes(model)
                        + Cardinality(valid_paths \ DOMAIN model.path_to_index) <= MaxNodes
                   /\ \E remove_order \in IterationOrders(stale),
                         add_order \in IterationOrders(valid_paths) :
                         LET st == Reconcile([model |-> model, stars |-> entity_map],
                                             valid_paths, remove_order, add_order)
                         IN  /\ model' = st.model
                             /\ entity_map' = st.stars
                             /\ fs_last' = [op |-> "reconcile", valid |-> valid_paths,
                                            removed |-> stale,
                                            added |-> valid_paths \ DOMAIN model.path_to_index]
       ELSE UNCHANGED <<model, entity_map, fs_last>>
    /\ gitignore_changed' = FALSE
    /\ check_last' = "none"
    /\ fs_pc' = "idle"
    /\ UNCHANGED event_receiver
    /\ UNCHANGED <<agent_vars, server_vars, client_vars, mock_vars>>

NextFs ==
    \/ WatcherSend
    \/ FsCreated
    \/ FsDeleted
    \/ FsModified
    \/ FsFinish

\* ------------------------------------------------------------ agent events
Sessions == {"s1", "s2"}

ToolNames == {"Read"}

\* The file paths tool-use events name: two canonical paths of the watched
\* tree and another spelling of the second one, which names a file of the
\* tree while that file is on disk and nothing the model indexes otherwise.
WsFilePaths ==
    { <<"r", "src">>,
      <<"r", "src", "main.rs">>,
      <<"r", "src", ".", "main.rs">> }

AgentEvents ==
    [type : {"session_start"}, session_id : Sessions] \cup
    [type : {"tool_use"}, session_id : Sessions, tool_name : ToolNames,
     file_path : WsFilePaths]

\* Path::canonicalize resolves the path against the disk and fails for a path
\* that does not exist; the event's own spelling is used then.
canonicalize(file_path, on_disk) ==
    LET resolved == SelectSeq(file_path, LAMBDA c : c # ".")
    IN  IF resolved \in on_disk THEN resolved ELSE file_path

ActionVerb(tool_name) ==
    CASE tool_name = "Read"  -> "Reading"
      [] tool_name = "Write" -> "Writing"
      [] tool_name = "Edit"  -> "Editing"
      [] tool_name = "Grep"  -> "Searching"
      [] tool_name = "Glob"  -> "Finding"
      [] OTHER               -> "Working on"

\* ----------------------------------------------------------------- agents
Spawning(timer) == [tag |-> "Spawning", timer |-> timer]

Idle(timer) == [tag |-> "Idle", timer |-> timer]

Moving(progress, target_node) ==
    [tag |-> "Moving", progress |-> progress, target_node |-> target_node]

Despawning(timer) == [tag |-> "Despawning", timer |-> timer]

MoveTo(node_index) == [action |-> "MoveTo", node_index |-> node_index]

NoAction == <<>>

\* The Agent component spawn_agent_entity queues for a new entity.
spawn_agent_entity(session_id, event_queue) ==
    [session_id |-> session_id,
     event_queue |-> event_queue,
     state |-> Spawning(0),
     current_target_file |-> None,
     current_action |-> NoAction]

InitAgents ==
    /\ receiver = <<>>
    /\ ws_sent = 0
    /\ registry = <<>>
    /\ agents = <<>>
    /\ next_entity = 1
    /\ event_history = <<>>
    /\ arrived_events = <<>>
    /\ frame_pc = "process_ws_events"
    /\ ws_last = <<>>
    /\ expected_visits = [s \in Sessions |-> <<>>]

\* The server has made its channel and serves; nobody is connected.
InitServer ==
    /\ channel = <<>>
    /\ subscribers = <<>>

\* The client thread has been started and is about to connect.
InitWsClient ==
    /\ ws_pc = "connecting"
    /\ ws_log = <<>>

\* The server was started in mock mode: run_mock_sessions is in its first sleep.
InitMock ==
    /\ mock_pc = "starting"
    /\ max_concurrent = 0
    /\ session_counter = 0
    /\ handles = <<>>

Init == InitFs /\ InitAgents /\ InitServer /\ InitWsClient /\ InitMock

SpecFs == Init /\ [][NextFs]_vars

\* The WebSocket client thread parses a message and sends the event.
WsClientSend ==
    /\ ws_sent < MaxWsEvents
    /\ \E e \in AgentEvents : receiver' = Append(receiver, e)
    /\ ws_sent' = ws_sent + 1
    /\ UNCHANGED <<registry, agents, next_entity, event_history, arrived_events,
                   frame_pc, ws_last, expected_visits>>
    /\ UNCHANGED <<fs_vars, server_vars, client_vars, mock_vars>>

\* ------------------------------------------------------ process_ws_events
\* The state the receive loop works on.  `spawned` holds the entities whose
\* spawn command is queued: Commands are applied when the system has returned,
\* so Query::get_mut finds only the entities of `agents`.
get_mut_ok(st, entity) == entity \in DOMAIN st.agents

\* What the receive loop did with one event: the branch it took, and the node
\* a tool-use event was resolved to.
Did(st, ev, outcome, node) ==
    [st EXCEPT !.trace = Append(@, [type |-> ev.type, session_id |-> ev.session_id,
                                    outcome |-> outcome, node |-> node])]

IsDespawning(st, entity) ==
    get_mut_ok(st, entity) /\ st.agents[entity].state.tag = "Despawning"

\* Mutant of CancelDespawn: the agent is idle again with the timer it had.
CancelDespawn_keeps_timer(agent) ==
    IF agent.state.tag = "Despawning"
    THEN [agent EXCEPT !.state = Idle(agent.state.timer)] ELSE agent

\* Mutant of CancelDespawn: a despawn under way is not cancelled.
CancelDespawn_never(agent) == agent

CancelDespawn(agent) ==
    IF agent.state.tag = "Despawning" THEN [agent EXCEPT !.state = Idle(0)] ELSE agent

\* Mutant of SpawnInto: the agent starts with an empty queue.
SpawnInto_empty_queue(st, session_id, event_queue) ==
    [st EXCEPT
        !.spawned = (st.next_entity :> spawn_agent_entity(session_id, <<>>)) @@ @,
        !.registry = (session_id :> st.next_entity) @@ @,
        !.next_entity = @ + 1]

SpawnInto(st, session_id, event_queue) ==
    [st EXCEPT
        !.spawned = (st.next_entity :> spawn_agent_entity(session_id, event_queue)) @@ @,
        !.registry = (session_id :> st.next_entity) @@ @,
        !.next_entity = @ + 1]

\* Mutant of on_session_start: no look-up of the session in the registry.
on_session_start_always_spawns(st, ev) ==
    Did(SpawnInto(st, ev.session_id, <<>>), ev, "spawn", None)

\* Mutant of on_session_start: a known agent is set to Idle whatever its state.
on_session_start_always_idles(st, ev) ==
    IF ev.session_id \in DOMAIN st.registry
    THEN LET entity == st.registry[ev.session_id]
         IN  IF get_mut_ok(st, entity)
             THEN Did([st EXCEPT !.agents[entity].state = Idle(0)], ev,
                      IF IsDespawning(st, entity) THEN "cancel_despawn" ELSE "known",
                      None)
             ELSE Did(st, ev, "known", None)
    ELSE Did(SpawnInto(st, ev.session_id, <<>>), ev, "spawn", None)

on_session_start(st, ev) ==
    IF ev.session_id \in DOMAIN st.registry
    THEN LET entity == st.registry[ev.session_id]
         IN  IF get_mut_ok(st, entity)
             THEN Did([st EXCEPT !.agents[entity] = CancelDespawn(@)], ev,
                      IF IsDespawning(st, entity) THEN "cancel_despawn" ELSE "known",
                      None)
             ELSE Did(st, ev, "known", None)
    ELSE Did(SpawnInto(st, ev.session_id, <<>>), ev, "spawn", None)

\* Mutant of PushHistory: a full history drops the entry just pushed.
PushHistory_drops_newest(history, node_idx, file_event) ==
    LET events == IF node_idx \in DOMAIN history THEN history[node_idx] ELSE <<>>
        pushed == Append(events, file_event)
    IN  (node_idx :> IF Len(pushed) > HISTORY_CAP
                     THEN SubSeq(pushed, 1, HISTORY_CAP) ELSE pushed)
            @@ history

PushHistory(history, node_idx, file_event) ==
    LET events == IF node_idx \in DOMAIN history THEN history[node_idx] ELSE <<>>
        pushed == Append(events, file_event)
    IN  (node_idx :> IF Len(pushed) > HISTORY_CAP THEN Tail(pushed) ELSE pushed)
            @@ history

\* Mutant of on_tool_use: the agent of an unknown session is spawned before
\* the path is looked up.
on_tool_use_spawns_first(st, ev, m, on_disk) ==
    LET canonical   == canonicalize(ev.file_path, on_disk)
        action_desc == <<ActionVerb(ev.tool_name), FileName(canonical)>>
        node_idx    == get_node_by_path(m, canonical)
    IN  IF node_idx = None
        THEN Did(IF ev.session_id \in DOMAIN st.registry
                 THEN st ELSE SpawnInto(st, ev.session_id, <<>>),
                 ev, "dropped", None)
        ELSE LET recorded ==
                     [st EXCEPT
                        !.event_history =
                            PushHistory(@, node_idx,
                                        [tool_name |-> ev.tool_name,
                                         session_id |-> ev.session_id]),
                        !.expected[ev.session_id] = Append(@, node_idx)]
             IN  IF ev.session_id \in DOMAIN recorded.registry
                 THEN LET entity == recorded.registry[ev.session_id]
                      IN  IF get_mut_ok(recorded, entity)
                          THEN Did([recorded EXCEPT
                                      !.agents[entity] =
                                         [CancelDespawn(@) EXCEPT
                                            !.event_queue = Append(@, MoveTo(node_idx)),
                                            !.current_action = action_desc]],
                                   ev,
                                   IF IsDespawning(st, entity)
                                   THEN "cancel_despawn" ELSE "push",
                                   node_idx)
                          ELSE Did(recorded, ev, "no_component", node_idx)
                 ELSE Did(SpawnInto(recorded, ev.session_id, <<MoveTo(node_idx)>>),
                          ev, "auto_spawn", node_idx)

on_tool_use(st, ev, m, on_disk) ==
    LET canonical   == canonicalize(ev.file_path, on_disk)
        action_desc == <<ActionVerb(ev.tool_name), FileName(canonical)>>
        node_idx    == get_node_by_path(m, canonical)
    IN  IF node_idx = None
        THEN Did(st, ev, "dropped", None)
        ELSE LET recorded ==
                     [st EXCEPT
                        !.event_history =
                            PushHistory(@, node_idx,
                                        [tool_name |-> ev.tool_name,
                                         session_id |-> ev.session_id]),
                        !.expected[ev.session_id] = Append(@, node_idx)]
             IN  IF ev.session_id \in DOMAIN recorded.registry
                 THEN LET entity == recorded.registry[ev.session_id]
                      IN  IF get_mut_ok(recorded, entity)
                          THEN Did([recorded EXCEPT
                                      !.agents[entity] =
                                         [CancelDespawn(@) EXCEPT
                                            !.event_queue = Append(@, MoveTo(node_idx)),
                                            !.current_action = action_desc]],
                                   ev,
                                   IF IsDespawning(st, entity)
                                   THEN "cancel_despawn" ELSE "push",
                                   node_idx)
                          ELSE Did(recorded, ev, "no_component", node_idx)
                 ELSE Did(SpawnInto(recorded, ev.session_id, <<MoveTo(node_idx)>>),
                          ev, "auto_spawn", node_idx)

RECURSIVE drain_ws(_, _, _, _)
drain_ws(st, events, m, on_disk) ==
    IF events = <<>> THEN st
    ELSE LET ev == Head(events)
         IN  drain_ws(IF ev.type = "session_start"
                      THEN on_session_start(st, ev)
                      ELSE on_tool_use(st, ev, m, on_disk),
                      Tail(events), m, on_disk)

\* process_ws_events: the whole receive loop, then the queued spawns applied.
ProcessWsEvents ==
    /\ frame_pc = "process_ws_events"
    /\ fs_pc = "idle"
    /\ \E on_disk \in DiskTrees :
          LET st == drain_ws([registry |-> registry, agents |-> agents,
                              spawned |-> <<>>, next_entity |-> next_entity,
                              event_history |-> event_history,
                              expected |-> expected_visits, trace |-> <<>>],
                             receiver, model, on_disk)
          IN  /\ registry' = st.registry
              /\ agents' = st.spawned @@ st.agents
              /\ next_entity' = st.next_entity
              /\ event_history' = st.event_history
              /\ expected_visits' = st.expected
              /\ ws_last' = st.trace
    /\ receiver' = <<>>
    /\ frame_pc' = "agent_state_machine"
    /\ UNCHANGED <<ws_sent, arrived_events>>
    /\ UNCHANGED <<fs_vars, server_vars, client_vars, mock_vars>>

\* ----------------------------------------------------- agent_state_machine
\* The frame's time step: a short frame and a long one (a stall), in tenths of
\* a second.  Together they add up to IDLE_TIMEOUT, as 0.4 + 4.6 does in f32.
FrameDeltas == {4, 46}

\* Mutant of step_agent: a move ends only when progress has passed the end.
step_agent_strict_arrival(agent, dt) ==
    CASE agent.state.tag = "Spawning" ->
            IF agent.state.timer + dt >= SPAWN_DURATION
            THEN [agent EXCEPT !.state = Idle(0)]
            ELSE [agent EXCEPT !.state = Spawning(agent.state.timer + dt)]
      [] agent.state.tag = "Idle" ->
            IF agent.event_queue # <<>>
            THEN [agent EXCEPT
                    !.event_queue = Tail(@),
                    !.current_target_file = Head(agent.event_queue).node_index,
                    !.state = Moving(0, Head(agent.event_queue).node_index)]
            ELSE IF agent.state.timer + dt >= IDLE_TIMEOUT
                 THEN [agent EXCEPT !.state = Despawning(0), !.current_action = NoAction]
                 ELSE [agent EXCEPT !.state = Idle(agent.state.timer + dt)]
      [] agent.state.tag = "Moving" ->
            IF agent.state.progress + dt > MOVE_SPEED
            THEN [agent EXCEPT
                    !.current_target_file = agent.state.target_node,
                    !.state = Idle(0)]
            ELSE [agent EXCEPT
                    !.state = Moving(agent.state.progress + dt, agent.state.target_node)]
      [] agent.state.tag = "Despawning" ->
            IF agent.state.timer + dt >= DESPAWN_DURATION
            THEN [agent EXCEPT !.state = Despawning(DESPAWN_DURATION)]
            ELSE [agent EXCEPT !.state = Despawning(agent.state.timer + dt)]

\* Mutant of step_agent: the spawn timer is carried over into Idle.
step_agent_idle_keeps_spawn_timer(agent, dt) ==
    CASE agent.state.tag = "Spawning" ->
            IF agent.state.timer + dt >= SPAWN_DURATION
            THEN [agent EXCEPT !.state = Idle(agent.state.timer + dt)]
            ELSE [agent EXCEPT !.state = Spawning(agent.state.timer + dt)]
      [] agent.state.tag = "Idle" ->
            IF agent.event_queue # <<>>
            THEN [agent EXCEPT
                    !.event_queue = Tail(@),
                    !.current_target_file = Head(agent.event_queue).node_index,
                    !.state = Moving(0, Head(agent.event_queue).node_index)]
            ELSE IF agent.state.timer + dt >= IDLE_TIMEOUT
                 THEN [agent EXCEPT !.state = Despawning(0), !.current_action = NoAction]
                 ELSE [agent EXCEPT !.state = Idle(agent.state.timer + dt)]
      [] agent.state.tag = "Moving" ->
            IF agent.state.progress + dt >= MOVE_SPEED
            THEN [agent EXCEPT
                    !.current_target_file = agent.state.target_node,
                    !.state = Idle(0)]
            ELSE [agent EXCEPT
                    !.state = Moving(agent.state.progress + dt, agent.state.target_node)]
      [] agent.state.tag = "Despawning" ->
            IF agent.state.timer + dt >= DESPAWN_DURATION
            THEN [agent EXCEPT !.state = Despawning(DESPAWN_DURATION)]
            ELSE [agent EXCEPT !.state = Despawning(agent.state.timer + dt)]

step_agent(agent, dt) ==
    CASE agent.state.tag = "Spawning" ->
            IF agent.state.timer + dt >= SPAWN_DURATION
            THEN [agent EXCEPT !.state = Idle(0)]
            ELSE [agent EXCEPT !.state = Spawning(agent.state.timer + dt)]
      [] agent.state.tag = "Idle" ->
            IF agent.event_queue # <<>>
            THEN [agent EXCEPT
                    !.event_queue = Tail(@),
                    !.current_target_file = Head(agent.event_queue).node_index,
                    !.state = Moving(0, Head(agent.event_queue).node_index)]
            ELSE IF agent.state.timer + dt >= IDLE_TIMEOUT
                 THEN [agent EXCEPT !.state = Despawning(0), !.current_action = NoAction]
                 ELSE [agent EXCEPT !.state = Idle(agent.state.timer + dt)]
      [] agent.state.tag = "Moving" ->
            IF agent.state.progress + dt >= MOVE_SPEED
            THEN [agent EXCEPT
                    !.current_target_file = agent.state.target_node,
                    !.state = Idle(0)]
            ELSE [agent EXCEPT
                    !.state = Moving(agent.state.progress + dt, agent.state.target_node)]
      [] agent.state.tag = "Despawning" ->
            IF agent.state.timer + dt >= DESPAWN_DURATION
            THEN [agent EXCEPT !.state = Despawning(DESPAWN_DURATION)]
            ELSE [agent EXCEPT !.state = Despawning(agent.state.timer + dt)]

Arrives(agent, dt) ==
    /\ agent.state.tag = "Moving"
    /\ agent.state.progress + dt >= MOVE_SPEED

\* The agents in entity order, as Query::iter visits them.
RECURSIVE ArrivalsOf(_, _, _)
ArrivalsOf(as, entities, dt) ==
    IF entities = {} THEN <<>>
    ELSE LET e == CHOOSE x \in entities : \A y \in entities : x <= y
         IN  (IF Arrives(as[e], dt) THEN <<as[e].state.target_node>> ELSE <<>>)
                \o ArrivalsOf(as, entities \ {e}, dt)

\* The bookkeeping of expected_visits on an arrival: the visit is struck off
\* when it is the oldest one expected, any other arrival is marked by None.
StrikeOff(expected, node) ==
    IF expected # <<>> /\ Head(expected) = node
    THEN Tail(expected)
    ELSE <<None>> \o expected

AgentOf(as, session_id) == { e \in DOMAIN as : as[e].session_id = session_id }

AgentStateMachine ==
    /\ frame_pc = "agent_state_machine"
    /\ fs_pc = "idle"
    /\ \E dt \in FrameDeltas :
          /\ agents' = [e \in DOMAIN agents |-> step_agent(agents[e], dt)]
          /\ arrived_events' = ArrivalsOf(agents, DOMAIN agents, dt)
          /\ expected_visits' =
                [s \in Sessions |->
                    IF \E e \in AgentOf(agents, s) : Arrives(agents[e], dt)
                    THEN LET e == CHOOSE x \in AgentOf(agents, s) : Arrives(agents[x], dt)
                         IN  StrikeOff(expected_visits[s], agents[e].state.target_node)
                    ELSE expected_visits[s]]
    /\ frame_pc' = "agent_despawn_system"
    /\ ws_last' = <<>>
    /\ UNCHANGED <<receiver, ws_sent, registry, next_entity, event_history>>
    /\ UNCHANGED <<fs_vars, server_vars, client_vars, mock_vars>>

\* ---------------------------------------------------- agent_despawn_system
\* Mutant of Despawnable: the timer is not looked at.
Despawnable_any_timer(agent) == agent.state.tag = "Despawning"

Despawnable(agent) ==
    /\ agent.state.tag = "Despawning"
    /\ agent.state.timer >= DESPAWN_DURATION

\* Mutant of AgentDespawn: the registry keeps the entry of a despawned agent.
AgentDespawn_keeps_registry ==
    /\ frame_pc = "agent_despawn_system"
    /\ fs_pc = "idle"
    /\ LET gone == { e \in DOMAIN agents : Despawnable(agents[e]) }
       IN  agents' = [e \in (DOMAIN agents) \ gone |-> agents[e]]
    /\ frame_pc' = "process_ws_events"
    /\ UNCHANGED <<receiver, ws_sent, registry, next_entity, event_history,
                   arrived_events, ws_last, expected_visits>>
    /\ UNCHANGED <<fs_vars, server_vars, client_vars, mock_vars>>

AgentDespawn ==
    /\ frame_pc = "agent_despawn_system"
    /\ fs_pc = "idle"
    /\ LET gone == { e \in DOMAIN agents : Despawnable(agents[e]) }
       IN  /\ registry' = [s \in { x \in DOMAIN registry :
                                     \A e \in gone : agents[e].session_id # x } |->
                               registry[s]]
           /\ agents' = [e \in (DOMAIN agents) \ gone |-> agents[e]]
    /\ frame_pc' = "process_ws_events"
    /\ UNCHANGED <<receiver, ws_sent, next_entity, event_history, arrived_events,
                   ws_last, expected_visits>>
    /\ UNCHANGED <<fs_vars, server_vars, client_vars, mock_vars>>

\* The agent engine over the model of a started program whose tree holds
\* r/src/main.rs and does not change.
InitAgentEngine == Init /\ total_nodes(model) = 3

NextAgent ==
    \/ WsClientSend
    \/ ProcessWsEvents
    \/ AgentStateMachine
    \/ AgentDespawn

SpecAgent == InitAgentEngine /\ [][NextAgent]_vars

\* The agent engine over the first events of a connection, with every system
\* of the chain run again and again, as the Update schedule does.
NextAgentLive == NextAgent /\ ws_sent' <= MaxLiveEvents

SpecAgentLive ==
    /\ InitAgentEngine
    /\ [][NextAgentLive]_vars
    /\ WF_vars(ProcessWsEvents)
    /\ WF_vars(AgentStateMachine)
    /\ WF_vars(AgentDespawn)

\* ------------------------------------------------------- the event history
\* The recording of a resolved tool-use event in FileEventHistory, on its own:
\* the histories of the nodes under every sequence of resolved events long
\* enough to fill one.
FileEvents == [tool_name : ToolNames, session_id : Sessions]

RecordFileEvent ==
    /\ ws_sent < MaxHistoryEvents
    /\ \E ev \in AgentEvents :
          /\ ev.type = "tool_use"
          /\ get_node_by_path(model, ev.file_path) # None
          /\ event_history' =
                PushHistory(event_history, get_node_by_path(model, ev.file_path),
                            [tool_name |-> ev.tool_name, session_id |-> ev.session_id])
    /\ ws_sent' = ws_sent + 1
    /\ UNCHANGED <<receiver, registry, agents, next_entity, arrived_events,
                   frame_pc, ws_last, expected_visits>>
    /\ UNCHANGED <<fs_vars, server_vars, client_vars, mock_vars>>

NextHistory == RecordFileEvent

SpecHistory == InitAgentEngine /\ [][NextHistory]_vars

\* ------------------------------------------------------------- the server
Endpoints == {"session-start", "read", "write", "edit"}

\* The JSON bodies the POST routes accept.
SessionStartPayloads == [session_id : {"s1"}, cwd : {Root}, model : {"m"}]

ToolUsePayloads ==
    [session_id : {"s1"}, tool_name : ToolNames,
     file_path : {<<"r", "src", "main.rs">>}, reason : {None}]

PayloadsOf(endpoint) ==
    IF endpoint = "session-start" THEN SessionStartPayloads ELSE ToolUsePayloads

\* The message a route builds of a payload.  now is the server's clock when
\* the route runs; only the tool-use routes read it.
Message(endpoint, payload, now) ==
    IF endpoint = "session-start"
    THEN [type |-> "session_start", session_id |-> payload.session_id,
          cwd |-> payload.cwd, model |-> payload.model]
    ELSE [type |-> "tool_use", session_id |-> payload.session_id,
          tool_name |-> payload.tool_name, file_path |-> payload.file_path,
          reason |-> payload.reason, timestamp |-> now]

\* A POST route: the message is sent on the broadcast channel.  The receiver
\* main keeps alive makes every send succeed.  The clock is read as the number
\* of messages sent before.
Post ==
    /\ Len(channel) < MaxPosts
    /\ \E endpoint \in Endpoints : \E payload \in PayloadsOf(endpoint) :
          channel' = Append(channel, Message(endpoint, payload, Len(channel)))
    /\ UNCHANGED subscribers
    /\ UNCHANGED <<fs_vars, agent_vars, client_vars, mock_vars>>

\* The ws route: tx.subscribe() gives a receiver that starts at the tail of
\* the channel, and handle_ws_client starts its two tasks.
Subscribe ==
    /\ Len(subscribers) < MaxSubscribers
    /\ subscribers' = Append(subscribers,
                             [joined |-> Len(channel),
                              next |-> Len(channel) + 1,
                              delivered |-> <<>>,
                              send_task |-> TRUE,
                              connected |-> TRUE])
    /\ UNCHANGED channel
    /\ UNCHANGED <<fs_vars, agent_vars, client_vars, mock_vars>>

\* The receiver has fallen behind by more than the channel retains: its next
\* message is overwritten and recv returns RecvError::Lagged.
Lagged(sub) == Len(channel) - (sub.next - 1) > BroadcastCapacity

\* One turn of the send task's loop: rx.recv() returns, and the message is
\* sent on the socket.  The loop ends on an error of recv or of the socket.
Forward ==
    /\ \E id \in DOMAIN subscribers :
          LET sub == subscribers[id]
          IN  /\ sub.send_task
              /\ Lagged(sub) \/ sub.next <= Len(channel)
              /\ subscribers' =
                    [subscribers EXCEPT ![id] =
                        IF Lagged(sub) \/ ~sub.connected
                        THEN [sub EXCEPT !.send_task = FALSE]
                        ELSE [sub EXCEPT !.delivered = Append(@, channel[sub.next]),
                                         !.next = @ + 1]]
    /\ UNCHANGED channel
    /\ UNCHANGED <<fs_vars, agent_vars, client_vars, mock_vars>>

\* The client goes away: the socket's stream ends and so does the receive task.
ClientClose ==
    /\ \E id \in DOMAIN subscribers :
          /\ subscribers[id].connected
          /\ subscribers' = [subscribers EXCEPT ![id].connected = FALSE]
    /\ UNCHANGED channel
    /\ UNCHANGED <<fs_vars, agent_vars, client_vars, mock_vars>>

NextServer ==
    \/ Post
    \/ Subscribe
    \/ Forward
    \/ ClientClose

SpecServer == Init /\ [][NextServer]_vars
\* ------------------------------------------------------------ mock mode
\* format!("mock-session-{}", session_counter)
MockSessionId(n) == <<"mock-session-", n>>

\* The task of run_single_session as tokio::spawn returns it: in its initial
\* delay, with nothing sent.
NewSession(n) ==
    [session_id |-> MockSessionId(n), pc |-> "delay", num_actions |-> 0, i |-> 0,
     sent |-> <<>>]

is_finished(h) == h.pc = "finished"

\* The sessions of session_counter + 1 .. session_counter + count, as the
\* inner loop pushes them.
RECURSIVE SpawnSessions(_, _)
SpawnSessions(counter, count) ==
    IF count = 0 THEN <<>>
    ELSE <<NewSession(counter + 1)>> \o SpawnSessions(counter + 1, count - 1)

\* Mutant of Vacancies: one session more than the limit.
Vacancies_one_too_many(len, limit) == IF len <= limit THEN limit + 1 - len ELSE 0

\* How often `while handles.len() < max_concurrent` runs its body.
Vacancies(len, limit) == IF len < limit THEN limit - len ELSE 0

\* The first sleep of run_mock_sessions is over: the limit is drawn.
MockDrawLimit ==
    /\ mock_pc = "starting"
    /\ \E r \in 0 .. (CONCURRENT_CHOICES - 1) : max_concurrent' = MIN_CONCURRENT + r
    /\ mock_pc' = "managing"
    /\ UNCHANGED <<session_counter, handles>>
    /\ UNCHANGED <<fs_vars, agent_vars, server_vars, client_vars>>

\* One turn of the loop of run_mock_sessions: the finished tasks are dropped
\* and sessions are spawned up to the limit; then the manager sleeps.
MockManage ==
    /\ mock_pc = "managing"
    /\ LET kept  == SelectSeq(handles, LAMBDA h : ~is_finished(h))
           count == Vacancies(Len(kept), max_concurrent)
       IN  /\ session_counter + count <= MaxMockSessions
           /\ handles' = kept \o SpawnSessions(session_counter, count)
           /\ session_counter' = session_counter + count
    /\ UNCHANGED <<mock_pc, max_concurrent>>
    /\ UNCHANGED <<fs_vars, agent_vars, server_vars, client_vars>>

\* run_single_session after its initial delay: session_start is sent and the
\* number of actions is drawn.
SessionStart ==
    \E k \in DOMAIN handles :
       /\ handles[k].pc = "delay"
       /\ \E r \in 0 .. (ACTION_CHOICES - 1) :
             handles' = [handles EXCEPT
                            ![k].pc = "acting",
                            ![k].num_actions = MIN_ACTIONS + r,
                            ![k].sent = Append(@, "session_start")]
       /\ UNCHANGED <<mock_pc, max_concurrent, session_counter>>
       /\ UNCHANGED <<fs_vars, agent_vars, server_vars, client_vars>>

\* One turn of the loop over 0 .. num_actions: after the delay the tool_use
\* message is sent; after the last one the wind-down sleep begins.
SessionToolUse ==
    \E k \in DOMAIN handles :
       /\ handles[k].pc = "acting"
       /\ handles[k].i < handles[k].num_actions
       /\ handles' = [handles EXCEPT
                         ![k].i = @ + 1,
                         ![k].sent = Append(@, "tool_use"),
                         ![k].pc = IF handles[k].i + 1 < handles[k].num_actions
                                   THEN "acting" ELSE "wind_down"]
       /\ UNCHANGED <<mock_pc, max_concurrent, session_counter>>
       /\ UNCHANGED <<fs_vars, agent_vars, server_vars, client_vars>>

\* The wind-down sleep is over: the task returns.
SessionEnd ==
    \E k \in DOMAIN handles :
       /\ handles[k].pc = "wind_down"
       /\ handles' = [handles EXCEPT ![k].pc = "finished"]
       /\ UNCHANGED <<mock_pc, max_concurrent, session_counter>>
       /\ UNCHANGED <<fs_vars, agent_vars, server_vars, client_vars>>

NextMock ==
    \/ MockDrawLimit
    \/ MockManage
    \/ SessionStart
    \/ SessionToolUse
    \/ SessionEnd

\* The server in mock mode; the frontend does not matter to it and is taken
\* over its smallest tree.
InitMockServer == Init /\ total_nodes(model) = 1

SpecMock == InitMockServer /\ [][NextMock]_vars


\* ------------------------------------------------- the WebSocket client
\* The text messages a socket read returns: the two messages the server
\* builds, a message of a type the client does not know, and a tool-use
\* message without its file path.
WsTexts ==
    { Message("session-start", p, 0) : p \in SessionStartPayloads } \cup
    { Message("read", p, 0) : p \in ToolUsePayloads } \cup
    { [type |-> "session_end", session_id |-> "s1"],
      [type |-> "tool_use", session_id |-> "s1", tool_name |-> "Read"] }

ParseError == [type |-> "error"]

\* serde_json::from_str::<AgentEvent>: the tag picks the variant, every field
\* of the variant must be there, and fields the variant does not have are
\* skipped.  The events of the model keep the fields process_ws_events reads.
from_str(text) ==
    IF text.type = "session_start"
       /\ {"session_id", "cwd", "model"} \subseteq DOMAIN text
    THEN [type |-> "session_start", session_id |-> text.session_id]
    ELSE IF text.type = "tool_use"
            /\ {"session_id", "tool_name", "file_path"} \subseteq DOMAIN text
         THEN [type |-> "tool_use", session_id |-> text.session_id,
               tool_name |-> text.tool_name, file_path |-> text.file_path]
         ELSE ParseError

ClientObserves(entry) ==
    /\ Len(ws_log) < MaxClientSteps
    /\ ws_log' = Append(ws_log, entry)

\* connect(url) returns a socket.
WsConnected ==
    /\ ws_pc = "connecting"
    /\ ClientObserves([what |-> "connected"])
    /\ ws_pc' = "connected"
    /\ UNCHANGED <<fs_vars, agent_vars, server_vars, mock_vars>>

\* connect(url) fails: the thread goes on to its sleep.
WsConnectFailed ==
    /\ ws_pc = "connecting"
    /\ ClientObserves([what |-> "connect_failed"])
    /\ ws_pc' = "sleeping"
    /\ UNCHANGED <<fs_vars, agent_vars, server_vars, mock_vars>>

\* A read loop that gives the connection up on a message it cannot parse.
WsReadText_breaks_on_parse_error ==
    /\ ws_pc = "connected"
    /\ \E text \in WsTexts :
          /\ ClientObserves([what |-> "text", text |-> text])
          /\ receiver' = IF from_str(text) # ParseError
                         THEN Append(receiver, from_str(text))
                         ELSE receiver
          /\ ws_pc' = IF from_str(text) # ParseError
                      THEN "connected" ELSE "sleeping"
    /\ UNCHANGED <<ws_sent, registry, agents, next_entity, event_history,
                   arrived_events, frame_pc, ws_last, expected_visits>>
    /\ UNCHANGED <<fs_vars, server_vars, mock_vars>>

\* socket.read() returns a text message: the event it parses to is sent, a
\* message that does not parse is reported and nothing else.
WsReadText ==
    /\ ws_pc = "connected"
    /\ \E text \in WsTexts :
          /\ ClientObserves([what |-> "text", text |-> text])
          /\ receiver' = IF from_str(text) # ParseError
                         THEN Append(receiver, from_str(text))
                         ELSE receiver
    /\ UNCHANGED ws_pc
    /\ UNCHANGED <<ws_sent, registry, agents, next_entity, event_history,
                   arrived_events, frame_pc, ws_last, expected_visits>>
    /\ UNCHANGED <<fs_vars, server_vars, mock_vars>>

\* socket.read() returns a message that is not text.
WsReadOther ==
    /\ ws_pc = "connected"
    /\ ClientObserves([what |-> "binary"])
    /\ UNCHANGED ws_pc
    /\ UNCHANGED <<fs_vars, agent_vars, server_vars, mock_vars>>

\* socket.read() fails: the read loop is left for the sleep.
WsReadError ==
    /\ ws_pc = "connected"
    /\ ClientObserves([what |-> "read_error"])
    /\ ws_pc' = "sleeping"
    /\ UNCHANGED <<fs_vars, agent_vars, server_vars, mock_vars>>

\* The two seconds of sleep are over: the outer loop starts again.
WsSleepDone ==
    /\ ws_pc = "sleeping"
    /\ ws_pc' = "connecting"
    /\ UNCHANGED ws_log
    /\ UNCHANGED <<fs_vars, agent_vars, server_vars, mock_vars>>

NextWsClient ==
    \/ WsConnected
    \/ WsConnectFailed
    \/ WsReadText
    \/ WsReadOther
    \/ WsReadError
    \/ WsSleepDone

\* The thread sleeps by the clock: its sleep ends.
SpecWsClient == Init /\ [][NextWsClient]_vars /\ WF_vars(WsSleepDone)

\* ------------------------------------- the agents over a tree that shrinks
\* The watcher reports removals and changes only.
WatcherSendsNoCreated ==
    /\ WatcherSend
    /\ \A i \in DOMAIN event_receiver' : event_receiver'[i].kind # "Created"

\* update_file_system and the agent systems, frame after frame, over the
\* started program whose tree holds r/src/main.rs and loses nodes.
NextNodes ==
    \/ WatcherSendsNoCreated
    \/ FsDeleted
    \/ FsModified
    \/ FsFinish
    \/ (WsClientSend /\ ws_sent' <= MaxLiveEvents)
    \/ ProcessWsEvents
    \/ AgentStateMachine
    \/ AgentDespawn

SpecNodes == InitAgentEngine /\ [][NextNodes]_vars

\* The whole frontend.
Next ==
    \/ WatcherSend
    \/ FsCreated
    \/ FsDeleted
    \/ FsModified
    \/ FsFinish
    \/ WsClientSend
    \/ ProcessWsEvents
    \/ AgentStateMachine
    \/ AgentDespawn

Spec == Init /\ [][Next]_vars

\* ---------------------------------------------------------------- claims
NodeIndices == 0 .. (total_nodes(model) - 1)

Node(i) == model.nodes[i + 1]

Indexed == DOMAIN model.path_to_index

IndexOf(p) == model.path_to_index[p]

\* A step of the receive loop that takes an event of the given kind.
TakesEvent(kind) ==
    /\ event_receiver # <<>>
    /\ Head(event_receiver).kind = kind
    /\ event_receiver' = Tail(event_receiver)

\* C3: after any sequence of add_node and remove_node calls exactly one node
\* of the vector has no parent, and that node is the one recorded as root.
C3_SingleParentlessRoot ==
    LET parentless == { i \in NodeIndices : Node(i).parent = None }
    IN  /\ Cardinality(parentless) = 1
        /\ model.root \in parentless

\* C4: every key of path_to_index maps to an index inside the node vector
\* whose stored path equals the key.
C4_PathIndexConsistent ==
    \A p \in Indexed :
        /\ IndexOf(p) \in NodeIndices
        /\ Node(IndexOf(p)).path = p

\* A path has been removed and others are still indexed after adds and removes.
C4_Witness ==
    /\ fs_last.op = "remove_node"
    /\ fs_last.ret # None
    /\ Indexed # {}
    /\ total_nodes(model) = MaxNodes

C6_IndicesNeverReused ==
    [][ /\ total_nodes(model') >= total_nodes(model)
        /\ \A i \in NodeIndices : model'.nodes[i + 1].path = Node(i).path
        /\ (TakesEvent("Created") /\ model' # model) =>
              /\ fs_last' = [op |-> "add_node", ret |-> total_nodes(model)]
              /\ total_nodes(model') = total_nodes(model) + 1
        /\ \A p \in DOMAIN model'.path_to_index :
              (p \notin Indexed \/ model'.path_to_index[p] # IndexOf(p)) =>
                 model'.path_to_index[p] >= total_nodes(model)
      ]_vars

\* A removed path has been added again: two slots hold it, the later one is
\* the one add_node has just returned.
C6_Witness ==
    /\ fs_last.op = "add_node"
    /\ fs_last.ret # None
    /\ \E i \in NodeIndices :
          /\ i < fs_last.ret
          /\ Node(i).path = Node(fs_last.ret).path

\* C7: add_node on a path that is already indexed returns None and leaves the
\* model (node vector, path_to_index, root, child lists) and the star map as
\* they were: a duplicate Created event adds no node and no star.
C7_AddNodeIdempotent ==
    [][ (TakesEvent("Created") /\ HasPath(model, Head(event_receiver).path)) =>
           /\ model' = model
           /\ entity_map' = entity_map
           /\ fs_last' \in {fs_last, [op |-> "add_node", ret |-> None]}
      ]_vars

\* add_node has just been called on an indexed path.
C7_Witness == fs_last = [op |-> "add_node", ret |-> None]

\* C8: remove_node on an indexed path drops the path from path_to_index,
\* takes the node's index out of its parent's child list, empties the node's
\* own child list and returns the index; the node vector keeps its length and
\* every other path its index.  On a path that is not indexed it returns None
\* and changes nothing.
C8_RemoveNodeEffect ==
    [][ TakesEvent("Deleted") =>
           LET path == Head(event_receiver).path IN
           IF HasPath(model, path)
           THEN LET index == IndexOf(path) IN
                /\ fs_last' = [op |-> "remove_node", ret |-> index]
                /\ DOMAIN model'.path_to_index = Indexed \ {path}
                /\ \A q \in Indexed \ {path} : model'.path_to_index[q] = IndexOf(q)
                /\ total_nodes(model') = total_nodes(model)
                /\ model'.nodes[index + 1].children = <<>>
                /\ Node(index).parent # None =>
                      model'.nodes[Node(index).parent + 1].children =
                         SelectSeq(Node(Node(index).parent).children,
                                   LAMBDA c : c # index)
                /\ \A i \in NodeIndices :
                      \A c \in 1..Len(model'.nodes[i + 1].children) :
                         model'.nodes[i + 1].children[c] # index
                /\ \A i \in NodeIndices \ {index, Node(index).parent} :
                      model'.nodes[i + 1] = Node(i)
                /\ model'.root = model.root
           ELSE /\ model' = model
                /\ entity_map' = entity_map
                /\ fs_last' = [op |-> "remove_node", ret |-> None]
      ]_vars

\* remove_node has just removed a directory that had a parent and still has
\* an indexed child pointing at it.
C8_Witness ==
    /\ fs_last.op = "remove_node"
    /\ fs_last.ret # None
    /\ Node(fs_last.ret).parent # None
    /\ \E q \in Indexed : Node(IndexOf(q)).parent = fs_last.ret

\* C9: a reconciliation leaves exactly the valid paths indexed (every stale
\* path removed, every missing valid path added) and every path that was
\* indexed before and is still valid keeps its index.
C9_ReconcileToValidPaths ==
    [][ (gitignore_changed /\ ~gitignore_changed') =>
           /\ fs_last'.op = "reconcile"
           /\ fs_last'.removed = { p \in Indexed : p \notin fs_last'.valid }
           /\ fs_last'.added = fs_last'.valid \ Indexed
           /\ DOMAIN model'.path_to_index = fs_last'.valid
           /\ \A p \in Indexed \cap fs_last'.valid :
                 model'.path_to_index[p] = IndexOf(p)
      ]_vars

\* A reconciliation has removed a path, added one and kept one.
C9_Witness ==
    /\ fs_last.op = "reconcile"
    /\ fs_last.removed # {}
    /\ fs_last.added # {}
    /\ fs_last.valid \ fs_last.added # {}
    /\ Indexed = fs_last.valid

\* ------------------------------------------------------- agent properties
\* A run of process_ws_events: the step that leaves the receive loop.
DrainsReceiver ==
    /\ frame_pc = "process_ws_events"
    /\ frame_pc' = "agent_state_machine"

\* The nodes the run has resolved tool-use events of session s to, in
\* receipt order.
ResolvedInRun(s) ==
    SubSeq(expected_visits'[s], Len(expected_visits[s]) + 1,
           Len(expected_visits'[s]))

Targets(event_queue) ==
    [i \in 1 .. Len(event_queue) |-> event_queue[i].node_index]

IsSuffix(suffix, seq) ==
    /\ Len(suffix) <= Len(seq)
    /\ SubSeq(seq, Len(seq) - Len(suffix) + 1, Len(seq)) = suffix

\* C1: when a SessionStart of a session that has no agent and, right after
\* it, a ToolUse of that session naming an indexed path are drained by one
\* run of process_ws_events, the run leaves exactly one agent of the session,
\* and that agent's action queue is the one MoveTo to the node of the path.
C1_SessionStartThenToolUse ==
    [][ ( /\ DrainsReceiver
          /\ Len(receiver) = 2
          /\ receiver[1].type = "session_start"
          /\ receiver[2].type = "tool_use"
          /\ receiver[2].session_id = receiver[1].session_id
          /\ receiver[1].session_id \notin DOMAIN registry
          /\ receiver[2].file_path \in Indexed )
        => LET s == receiver[1].session_id
           IN  /\ Cardinality(AgentOf(agents', s)) = 1
               /\ \A e \in AgentOf(agents', s) :
                     agents'[e].event_queue =
                        <<MoveTo(IndexOf(receiver[2].file_path))>> ]_vars

\* C2: no action-queue push is lost: after a run of process_ws_events, the
\* nodes the run resolved tool-use events of a session to are, as MoveTo
\* entries in receipt order, the end of the action queue of the session's
\* agent.
C2_NoPushLost ==
    [][ DrainsReceiver
        => \A s \in Sessions :
              ResolvedInRun(s) # <<>>
              => /\ s \in DOMAIN registry'
                 /\ registry'[s] \in DOMAIN agents'
                 /\ IsSuffix(ResolvedInRun(s),
                             Targets(agents'[registry'[s]].event_queue)) ]_vars

\* The node the session's agent is moving to, then the nodes of its queue.
AheadOf(s) ==
    IF s \in DOMAIN registry /\ registry[s] \in DOMAIN agents
    THEN LET agent == agents[registry[s]]
         IN  (IF agent.state.tag = "Moving"
              THEN <<agent.state.target_node>> ELSE <<>>)
                \o Targets(agent.event_queue)
    ELSE <<>>

\* C10: the resolved tool-use events of a session are visited in receipt
\* order, one at a time: every arrival of the session's agent was at the
\* oldest node still to visit, and the nodes still to visit are the target of
\* the agent's one move under way followed by the targets of its queue.
C10_VisitsInReceiptOrder ==
    \A s \in Sessions : expected_visits[s] = AheadOf(s)

\* The run of process_ws_events resolved a tool-use event of session s.
ResolvedToolUse(trace, s) ==
    \E i \in 1 .. Len(trace) :
       /\ trace[i].type = "tool_use"
       /\ trace[i].session_id = s
       /\ trace[i].node # None

\* C11: an agent that is Despawning when a run of process_ws_events resolves
\* a tool-use event of its session is Idle with timer 0 after the run and is
\* still the session's agent: the registry maps the session, and no other
\* session, to it, and no other agent carries the session id.
C11_ToolUseCancelsDespawn ==
    [][ DrainsReceiver
        => \A s \in DOMAIN registry :
              ( /\ registry[s] \in DOMAIN agents
                /\ agents[registry[s]].state.tag = "Despawning"
                /\ ResolvedToolUse(ws_last', s) )
              => LET e == registry[s]
                 IN  /\ e \in DOMAIN agents'
                     /\ agents'[e].state = Idle(0)
                     /\ agents'[e].session_id = s
                     /\ AgentOf(agents', s) = {e}
                     /\ { x \in DOMAIN registry' : registry'[x] = e } = {s} ]_vars

C11_Witness ==
    /\ frame_pc = "agent_state_machine"
    /\ \E i \in 1 .. Len(ws_last) :
          /\ ws_last[i].type = "tool_use"
          /\ ws_last[i].outcome = "cancel_despawn"
          /\ registry[ws_last[i].session_id] \in DOMAIN agents
          /\ agents[registry[ws_last[i].session_id]].state = Idle(0)

\* A run of agent_state_machine: one tick of every agent.
Ticks ==
    /\ frame_pc = "agent_state_machine"
    /\ frame_pc' = "agent_despawn_system"

\* How many notifications of the sequence name the node.
CountOf(notifications, node) ==
    Cardinality({ i \in 1 .. Len(notifications) : notifications[i] = node })

\* The agents whose move to the node ends in the tick.
ArrivingAt(node) ==
    { e \in DOMAIN agents :
         /\ agents[e].state.tag = "Moving"
         /\ agents[e].state.target_node = node
         /\ agents'[e].state.tag # "Moving" }

\* C12: a tick takes an Idle agent with a queued MoveTo to Moving with
\* progress 0 towards the MoveTo's node; a tick of a Moving agent either adds
\* the positive time step to its progress, which stays below the whole move,
\* or, when the progress reaches the whole move, leaves the agent Idle with
\* timer 0 at the target; every node gets exactly one arrival notification per
\* agent whose move to it ends in the tick, and no other.
C12_MoveLifeCycle ==
    [][ Ticks
        => /\ \A e \in DOMAIN agents :
                 LET agent == agents[e]
                 IN  /\ (agent.state.tag = "Idle" /\ agent.event_queue # <<>>)
                        => /\ agents'[e].state =
                                 Moving(0, Head(agent.event_queue).node_index)
                           /\ agents'[e].event_queue = Tail(agent.event_queue)
                     /\ agent.state.tag = "Moving"
                        => \E dt \in FrameDeltas :
                              /\ dt > 0
                              /\ IF agent.state.progress + dt >= MOVE_SPEED
                                 THEN /\ agents'[e].state = Idle(0)
                                      /\ agents'[e].current_target_file =
                                            agent.state.target_node
                                 ELSE /\ agents'[e].state =
                                            Moving(agent.state.progress + dt,
                                                   agent.state.target_node)
                                      /\ agents'[e].state.progress > agent.state.progress
                              /\ agents'[e].event_queue = agent.event_queue
           /\ \A node \in NodeIndices :
                 CountOf(arrived_events', node) = Cardinality(ArrivingAt(node))
           /\ \A i \in 1 .. Len(arrived_events') : arrived_events'[i] \in NodeIndices ]_vars

\* An agent has just arrived at its target and has nothing else to do.
C12_Witness ==
    /\ frame_pc = "agent_despawn_system"
    /\ \E e \in DOMAIN agents :
          /\ agents[e].state = Idle(0)
          /\ agents[e].current_target_file # None
          /\ arrived_events = <<agents[e].current_target_file>>
          /\ agents[e].event_queue = <<>>

\* C13: at most one agent per session id: no two agents of the world carry
\* the same session id, and the agent the registry holds for a session
\* carries that session id.
C13_OneAgentPerSession ==
    /\ \A e1, e2 \in DOMAIN agents :
          agents[e1].session_id = agents[e2].session_id => e1 = e2
    /\ \A s \in DOMAIN registry :
          registry[s] \in DOMAIN agents => agents[registry[s]].session_id = s

\* A run of process_ws_events has met an event of a session that had an agent
\* already, and the session has one agent.
C13_Witness ==
    /\ frame_pc = "agent_state_machine"
    /\ \E i \in 1 .. Len(ws_last) :
          /\ ws_last[i].outcome \in {"known", "push", "no_component", "cancel_despawn"}
          /\ Cardinality(AgentOf(agents, ws_last[i].session_id)) = 1

\* The events of a run without the tool-use events the run has dropped.
RECURSIVE KeptEvents(_, _)
KeptEvents(events, trace) ==
    IF events = <<>> THEN <<>>
    ELSE (IF Head(trace).outcome = "dropped" THEN <<>> ELSE <<Head(events)>>)
            \o KeptEvents(Tail(events), Tail(trace))

\* C14: a tool-use event whose path resolves to no node of the model is
\* dropped without effect: a run of process_ws_events leaves the registry,
\* the agents (state, queue, current action), the entity counter and the event
\* history as the run of the other events alone leaves them, which is
\* unchanged when the run drops every event.
C14_UnresolvedToolUseDropped ==
    [][ ( /\ DrainsReceiver
          /\ \E i \in 1 .. Len(ws_last') : ws_last'[i].outcome = "dropped" )
        => /\ \A i \in 1 .. Len(ws_last') :
                 ws_last'[i].outcome = "dropped"
                 => /\ receiver[i].type = "tool_use"
                    /\ receiver[i].file_path \notin Indexed
           /\ \E on_disk \in DiskTrees :
                 LET st == drain_ws([registry |-> registry, agents |-> agents,
                                     spawned |-> <<>>, next_entity |-> next_entity,
                                     event_history |-> event_history,
                                     expected |-> expected_visits, trace |-> <<>>],
                                    KeptEvents(receiver, ws_last'), model, on_disk)
                 IN  /\ registry' = st.registry
                     /\ agents' = st.spawned @@ st.agents
                     /\ next_entity' = st.next_entity
                     /\ event_history' = st.event_history
                     /\ \A i \in 1 .. Len(st.trace) : st.trace[i].outcome # "dropped"
           /\ (\A i \in 1 .. Len(ws_last') : ws_last'[i].outcome = "dropped")
              => UNCHANGED <<registry, agents, next_entity, event_history>> ]_vars

\* A run has dropped a tool-use event while an agent existed.
C14_Witness ==
    /\ frame_pc = "agent_state_machine"
    /\ agents # <<>>
    /\ \E i \in 1 .. Len(ws_last) : ws_last[i].outcome = "dropped"

HistoryOf(history, node) ==
    IF node \in DOMAIN history THEN history[node] ELSE <<>>

\* C15: the history of a node never holds more than 10 entries; recording an
\* event on a node appends it to the node's history, and when the history
\* holds 10 entries already its oldest entry goes and the others keep their
\* order; the histories of the other nodes stay as they are.
C15_HistoryCapped ==
    [][ /\ \A node \in DOMAIN event_history' :
              Len(event_history'[node]) <= HISTORY_CAP
        /\ ws_sent' = ws_sent + 1
           => \E node \in NodeIndices, file_event \in FileEvents :
                 LET events == HistoryOf(event_history, node)
                 IN  /\ HistoryOf(event_history', node) =
                           IF Len(events) = HISTORY_CAP
                           THEN Append(Tail(events), file_event)
                           ELSE Append(events, file_event)
                     /\ \A other \in NodeIndices \ {node} :
                           HistoryOf(event_history', other) =
                              HistoryOf(event_history, other) ]_vars

\* An eleventh event has been recorded on a node, and the oldest entry left
\* differs from the newest.
C15_Witness ==
    \E node \in DOMAIN event_history :
       /\ DOMAIN event_history = {node}
       /\ ws_sent > HISTORY_CAP
       /\ Len(event_history[node]) = HISTORY_CAP
       /\ event_history[node][1] # event_history[node][HISTORY_CAP]

\* The sessions the events name.
SessionsOf(events) == { events[i].session_id : i \in 1 .. Len(events) }

\* C16: a run of process_ws_events over session-start events of sessions that
\* have an agent creates no agent and leaves the registry alone; it sets the
\* agents of these sessions that are Despawning to Idle with timer 0 and
\* leaves every other agent (state, timers, queue) as it is.
C16_KnownSessionStart ==
    [][ ( /\ DrainsReceiver
          /\ receiver # <<>>
          /\ \A i \in 1 .. Len(receiver) :
                /\ receiver[i].type = "session_start"
                /\ receiver[i].session_id \in DOMAIN registry )
        => /\ UNCHANGED <<registry, next_entity, event_history>>
           /\ DOMAIN agents' = DOMAIN agents
           /\ \A e \in DOMAIN agents :
                 agents'[e] =
                    IF /\ agents[e].state.tag = "Despawning"
                       /\ agents[e].session_id \in SessionsOf(receiver)
                    THEN [agents[e] EXCEPT !.state = Idle(0)]
                    ELSE agents[e] ]_vars

\* A session-start event has cancelled the despawn of its session's agent.
C16_Witness ==
    /\ frame_pc = "agent_state_machine"
    /\ \E i \in 1 .. Len(ws_last) :
          /\ ws_last[i].type = "session_start"
          /\ ws_last[i].outcome = "cancel_despawn"
          /\ AgentOf(agents, ws_last[i].session_id) = {registry[ws_last[i].session_id]}
          /\ agents[registry[ws_last[i].session_id]].state = Idle(0)

\* C17: an agent in Despawning has an empty action queue, in every state: no
\* queued move is discarded when the despawn pass destroys the agent.
C17_DespawningQueueEmpty ==
    \A e \in DOMAIN agents :
       agents[e].state.tag = "Despawning" => agents[e].event_queue = <<>>

\* An agent that has made a move is about to be destroyed.
C17_Witness ==
    /\ frame_pc = "agent_despawn_system"
    /\ \E e \in DOMAIN agents :
          /\ Despawnable(agents[e])
          /\ agents[e].current_target_file # None
          /\ agents[e].event_queue = <<>>

\* C18: an agent leaves the world, and a session leaves the registry, only in
\* a run of agent_despawn_system and only for an agent in Despawning whose
\* timer is the despawn duration; the two happen in the same run, and the run
\* leaves every other agent and registry entry as it is.
C18_RemovedOnlyByDespawnPass ==
    [][ /\ \A e \in DOMAIN agents :
              e \notin DOMAIN agents'
              => /\ frame_pc = "agent_despawn_system"
                 /\ agents[e].state = Despawning(DESPAWN_DURATION)
                 /\ agents[e].session_id \notin DOMAIN registry'
        /\ \A s \in DOMAIN registry :
              s \notin DOMAIN registry'
              => /\ frame_pc = "agent_despawn_system"
                 /\ registry[s] \in DOMAIN agents
                 /\ agents[registry[s]].state = Despawning(DESPAWN_DURATION)
                 /\ registry[s] \notin DOMAIN agents'
        /\ frame_pc = "agent_despawn_system"
           => /\ \A e \in DOMAIN agents' : e \in DOMAIN agents /\ agents'[e] = agents[e]
              /\ \A s \in DOMAIN registry' :
                    s \in DOMAIN registry /\ registry'[s] = registry[s] ]_vars

\* The despawn pass has removed the one agent there was, and its session.
C18_Witness ==
    /\ frame_pc = "process_ws_events"
    /\ next_entity > 1
    /\ agents = <<>>
    /\ registry = <<>>

\* The run's i-th event is a resolved tool-use event of a session that had no
\* agent before the run and no earlier event in the run.
FirstOfUnknownSession(i) ==
    /\ receiver[i].type = "tool_use"
    /\ ws_last'[i].node # None
    /\ receiver[i].session_id \notin DOMAIN registry
    /\ \A j \in 1 .. (i - 1) : receiver[j].session_id # receiver[i].session_id

AutoSpawned(s, node) ==
    /\ frame_pc = "agent_state_machine"
    /\ \E i \in 1 .. Len(ws_last) :
          /\ ws_last[i].outcome = "auto_spawn"
          /\ ws_last[i].session_id = s
          /\ ws_last[i].node = node

\* C19: a run of process_ws_events that meets a resolved tool-use event of a
\* session without an agent, and no event of that session before it, leaves
\* exactly one agent of the session: a new entity, registered under the
\* session id, in Spawning, whose action queue is the one MoveTo to the node
\* of the event.  Under repeated runs of the systems that agent gets to move
\* to the node.
C19_AutoSpawn ==
    /\ [][ DrainsReceiver
           => \A i \in 1 .. Len(receiver) :
                 FirstOfUnknownSession(i)
                 => LET s == receiver[i].session_id
                    IN  /\ ws_last'[i].outcome = "auto_spawn"
                        /\ s \in DOMAIN registry'
                        /\ registry'[s] \notin DOMAIN agents
                        /\ AgentOf(agents', s) = {registry'[s]}
                        /\ agents'[registry'[s]] =
                              spawn_agent_entity(s, <<MoveTo(ws_last'[i].node)>>) ]_vars
    /\ \A s \in Sessions : \A node \in 0 .. (MaxNodes - 1) :
          AutoSpawned(s, node)
          ~> (\E e \in AgentOf(agents, s) :
                 agents[e].state = Moving(0, node))

\* The agent a tool-use event has spawned is on its first move.
C19_Witness ==
    \E e \in DOMAIN agents :
       /\ e = next_entity - 1
       /\ registry[agents[e].session_id] = e
       /\ agents[e].state.tag = "Moving"
       /\ agents[e].state.progress > 0
       /\ agents[e].event_queue = <<>>

\* ------------------------------------------------------ server properties
\* The messages accepted since the subscriber connected.
AcceptedSince(sub) == SubSeq(channel, sub.joined + 1, Len(channel))

IsPrefix(prefix, seq) ==
    /\ Len(prefix) <= Len(seq)
    /\ SubSeq(seq, 1, Len(prefix)) = prefix

\* C20: every connected subscriber is sent the messages accepted since it
\* connected, in the order they were accepted, however far it is behind: what
\* it has been sent is the beginning of these messages, and the task that
\* sends it the rest is running.
C20_ForwardsToEverySubscriber ==
    \A id \in DOMAIN subscribers :
       subscribers[id].connected
       => /\ IsPrefix(subscribers[id].delivered, AcceptedSince(subscribers[id]))
          /\ subscribers[id].send_task

\* ------------------------------------------------ file-system properties
\* C21: a turn of update_file_system's loop on a Created event changes the
\* model and the star map only when the path is not reported as ignored and is
\* not indexed; then it adds one node for the path, in a new slot, and the
\* slot's star.  A check that could not be run counts as not ignored.
C21_CreatedAddsUnlessIgnored ==
    [][ TakesEvent("Created")
        => LET e == Head(event_receiver)
           IN  /\ check_last' \in CheckIgnoreOutcomes
               /\ IF check_last' = "exit_zero" \/ e.path \in Indexed
                  THEN UNCHANGED <<model, entity_map>>
                  ELSE /\ check_last' \in {"exit_nonzero", "spawn_error"}
                       /\ total_nodes(model') = total_nodes(model) + 1
                       /\ SubSeq(model'.nodes, 1, total_nodes(model)) \in
                             { model.nodes } \cup
                             { [model.nodes EXCEPT ![i + 1].children =
                                   Append(@, total_nodes(model))] : i \in NodeIndices }
                       /\ model'.nodes[total_nodes(model) + 1].path = e.path
                       /\ model'.nodes[total_nodes(model) + 1].is_dir = e.is_dir
                       /\ DOMAIN model'.path_to_index = Indexed \cup {e.path}
                       /\ model'.path_to_index[e.path] = total_nodes(model)
                       /\ entity_map' = entity_map \cup {total_nodes(model)} ]_vars

\* A node has been added for a path whose ignore check could not be run.
C21_Witness ==
    /\ check_last = "spawn_error"
    /\ fs_last.op = "add_node"
    /\ fs_last.ret # None
    /\ fs_last.ret \in entity_map
    /\ fs_last.ret \in { IndexOf(p) : p \in Indexed }

\* C22: no node's child index list holds the same index twice, in any state.
C22_NoDuplicateChildren ==
    \A i \in NodeIndices :
       \A a, b \in 1 .. Len(Node(i).children) :
          Node(i).children[a] = Node(i).children[b] => a = b

\* A node has two children, the second added by a watcher event.
C22_Witness ==
    /\ fs_last.op = "add_node"
    /\ fs_last.ret # None
    /\ \E i \in NodeIndices :
          /\ Len(Node(i).children) = 2
          /\ Node(i).children[2] = fs_last.ret

\* C27: every indexed node that has a parent index has a parent that is
\* indexed too and lists the node exactly once among its children, in every
\* state.
C27_ParentChildConsistent ==
    \A p \in Indexed :
       LET node == Node(IndexOf(p))
       IN  node.parent # None
           => /\ \E q \in Indexed : IndexOf(q) = node.parent
              /\ Cardinality({ k \in 1 .. Len(Node(node.parent).children) :
                                  Node(node.parent).children[k] = IndexOf(p) }) = 1

\* C28: the star map has an entry for a node index exactly when an indexed
\* path maps to that index, in every state.
C28_StarMapMatchesIndex ==
    entity_map = { IndexOf(p) : p \in Indexed }

\* A removal has taken a node's star away, and a node added after that node
\* has its star.
C28_Witness ==
    /\ fs_last.op = "remove_node"
    /\ fs_last.ret # None
    /\ fs_last.ret \notin entity_map
    /\ \E i \in entity_map : i > fs_last.ret /\ i >= 2

\* ---------------------------------------------------------------- C23
\* The events of the text messages of a log that parse, in the order of the log.
RECURSIVE ParsedOf(_)
ParsedOf(log) ==
    IF log = <<>> THEN <<>>
    ELSE LET rest == ParsedOf(SubSeq(log, 1, Len(log) - 1))
             last == log[Len(log)]
         IN  IF last.what = "text" /\ from_str(last.text) # ParseError
             THEN Append(rest, from_str(last.text))
             ELSE rest

\* The client thread has just seen this return of connect or read.
ClientSaw(what) ==
    /\ Len(ws_log') = Len(ws_log) + 1
    /\ ws_log'[Len(ws_log')].what = what

\* C23: the WebSocket client reconnects for ever and loses no parsed event:
\* the queue holds exactly the events of the text messages that parsed, once
\* each and in the order they were read; a text message that does not parse
\* adds no event and leaves the connection open; after a failed connect or a
\* failed read the thread sleeps, and from its sleep it always comes back to
\* connecting.
C23_ReconnectsAndEnqueuesParsed ==
    /\ [](receiver = ParsedOf(ws_log))
    /\ [][ /\ ( /\ ClientSaw("text")
                /\ from_str(ws_log'[Len(ws_log')].text) = ParseError )
              => (receiver' = receiver /\ ws_pc' = "connected")
           /\ ( /\ ClientSaw("text")
                /\ from_str(ws_log'[Len(ws_log')].text) # ParseError )
              => ( /\ receiver' = Append(receiver,
                                         from_str(ws_log'[Len(ws_log')].text))
                   /\ ws_pc' = "connected" )
           /\ (ClientSaw("connect_failed") \/ ClientSaw("read_error"))
              => ws_pc' = "sleeping" ]_vars
    /\ (ws_pc = "sleeping") ~> (ws_pc = "connecting")

\* The connection was made, a message that does not parse was read, then one
\* that does, then the read failed, and the thread is connecting again.
C23_Witness ==
    /\ Len(ws_log) = 4
    /\ ws_log[1].what = "connected"
    /\ ws_log[2].what = "text" /\ from_str(ws_log[2].text) = ParseError
    /\ ws_log[3].what = "text" /\ from_str(ws_log[3].text) # ParseError
    /\ ws_log[4].what = "read_error"
    /\ receiver = <<from_str(ws_log[3].text)>>
    /\ ws_pc = "connecting"

\* ---------------------------------------------------------------- C24
\* C24: a tick adds the time step to the timer of an Idle agent with an empty
\* queue and leaves it Idle until the accumulated time has passed the idle
\* threshold, and only then makes it Despawning with timer 0 and no
\* current-action label; a tick of an Idle agent with a queued action never
\* makes it Despawning but pops the front action and makes it Moving.
C24_IdleTimeout ==
    [][ Ticks
        => \A e \in DOMAIN agents :
              LET agent == agents[e]
              IN  agent.state.tag = "Idle"
                  => IF agent.event_queue # <<>>
                     THEN /\ agents'[e].state.tag = "Moving"
                          /\ agents'[e].event_queue = Tail(agent.event_queue)
                     ELSE \E dt \in FrameDeltas :
                             IF agent.state.timer + dt > IDLE_TIMEOUT
                             THEN /\ agents'[e].state = Despawning(0)
                                  /\ agents'[e].current_action = NoAction
                             ELSE /\ agents'[e].state = Idle(agent.state.timer + dt)
                                  /\ agents'[e].current_action = agent.current_action ]_vars

\* ---------------------------------------------------------------- C25
\* Every entity the model can spawn: each event spawns one agent at most.
Entities == 1 .. MaxWsEvents

\* No event is on its way to the agents any more.
NoFurtherEvents ==
    /\ receiver = <<>>
    /\ ws_sent >= MaxLiveEvents

\* The agent has an empty queue and nothing will come.
Undisturbed(e) ==
    /\ e \in DOMAIN agents
    /\ agents[e].event_queue = <<>>
    /\ NoFurtherEvents

\* The agent is undisturbed and not on its way to a file.
LeftAlone(e) ==
    /\ Undisturbed(e)
    /\ agents[e].state.tag # "Moving"

\* The order of the states of an agent that is left alone.
StageOf(tag) ==
    CASE tag = "Spawning" -> 1
      [] tag = "Idle" -> 2
      [] tag = "Despawning" -> 3
      [] OTHER -> 0

\* C25: under repeated ticks with a positive time step an agent that gets no
\* further event and has an empty queue is eventually removed; until then it
\* only moves forward through Spawning, Idle and Despawning, it is removed
\* from Despawning only, and a tick makes a Spawning agent Idle with timer 0
\* as soon as its timer and the time step add up to the spawn duration, and
\* Spawning with the sum as its timer before that.
C25_LeftAloneIsRemoved ==
    /\ \A e \in Entities : Undisturbed(e) ~> (e \notin DOMAIN agents)
    /\ [][ \A e \in DOMAIN agents :
              /\ (LeftAlone(e) /\ e \in DOMAIN agents')
                 => /\ StageOf(agents'[e].state.tag) >= StageOf(agents[e].state.tag)
                    /\ StageOf(agents'[e].state.tag) <= StageOf(agents[e].state.tag) + 1
              /\ (LeftAlone(e) /\ e \notin DOMAIN agents')
                 => agents[e].state.tag = "Despawning"
              /\ (Ticks /\ agents[e].state.tag = "Spawning")
                 => \E dt \in FrameDeltas :
                       /\ dt > 0
                       /\ agents'[e].state =
                             IF agents[e].state.timer + dt >= SPAWN_DURATION
                             THEN Idle(0)
                             ELSE Spawning(agents[e].state.timer + dt) ]_vars

\* An agent that was left alone has gone through its states and is removed:
\* the pass has just taken the only agent there was.
C25_Witness ==
    /\ NoFurtherEvents
    /\ next_entity > 1
    /\ agents = <<>>
    /\ registry = <<>>
    /\ frame_pc = "process_ws_events"

\* ---------------------------------------------------------------- C29
\* The registry names live agents by their session ids, and every live agent
\* is in it.
RegistryAgrees ==
    /\ \A s \in DOMAIN registry :
          /\ registry[s] \in DOMAIN agents
          /\ agents[registry[s]].session_id = s
    /\ \A e \in DOMAIN agents :
          /\ agents[e].session_id \in DOMAIN registry
          /\ registry[agents[e].session_id] = e

\* C29: at the end of every tick the registry and the live agents agree: each
\* registry entry is a live agent carrying that session id and each live
\* agent is registered under its session id; the pass that destroys an agent
\* takes its session out of the registry in the same run.
C29_RegistryMatchesAgents ==
    /\ [](frame_pc = "process_ws_events" => RegistryAgrees)
    /\ [][ \A e \in DOMAIN agents :
              e \notin DOMAIN agents'
              => /\ frame_pc = "agent_despawn_system"
                 /\ agents[e].session_id \notin DOMAIN registry' ]_vars

\* A tick has just destroyed one agent while another one lives on.
C29_Witness ==
    /\ frame_pc = "process_ws_events"
    /\ agents # <<>>
    /\ next_entity > Cardinality(DOMAIN agents) + 1
    /\ Cardinality(DOMAIN registry) = Cardinality(DOMAIN agents)

\* ---------------------------------------------------------------- C30
\* The node indices the agent engine holds: in the queued moves, in the
\* targets of the agents on their way, in current_target_file, in the arrival
\* notifications of the frame and as keys of the event history.
HeldIndices ==
    UNION { { agents[e].event_queue[i].node_index :
                 i \in 1 .. Len(agents[e].event_queue) } : e \in DOMAIN agents }
    \cup { agents[e].state.target_node :
              e \in { x \in DOMAIN agents : agents[x].state.tag = "Moving" } }
    \cup { agents[e].current_target_file :
              e \in { x \in DOMAIN agents : agents[x].current_target_file # None } }
    \cup { arrived_events[i] : i \in 1 .. Len(arrived_events) }
    \cup DOMAIN event_history

\* The node of the slot is in the model no longer.
Removed(i) == \A p \in Indexed : IndexOf(p) # i

\* C30: every node index the agent engine holds is a slot of the node vector,
\* also when the node it names has been taken out of the model by a delete or
\* by a reconciliation.
C30_HeldIndicesAreSlots == HeldIndices \subseteq NodeIndices

\* An agent is on its way to a node that has been removed, a move to it is
\* recorded in the history, and the slot is still there.
C30_Witness ==
    \E e \in DOMAIN agents :
       /\ agents[e].state.tag = "Moving"
       /\ Removed(agents[e].state.target_node)
       /\ agents[e].state.target_node \in DOMAIN event_history
       /\ agents[e].state.target_node \in NodeIndices
       /\ fs_last.op \in {"remove_node", "reconcile"}

\* ---------------------------------------------------------------- C26
\* The mock sessions that are running: their tasks have not returned.
Running == { k \in DOMAIN handles : ~is_finished(handles[k]) }

\* The tool_use messages a session has sent.
ToolUsesOf(h) == Len(SelectSeq(h.sent, LAMBDA m : m = "tool_use"))

\* The session ids given out so far.
GivenIds == { MockSessionId(n) : n \in 1 .. session_counter }

\* C26: in mock mode the limit is one of 2, 3 and 4 and never more sessions
\* run than the limit; no two sessions have the same id, a new session's id
\* being one that was never given before; the first message of a session is
\* its session_start and all its later messages are tool_use messages, at
\* most 12 of them, and at least 4 once the session is through with them.
C26_MockSessions ==
    /\ [](mock_pc # "starting"
            => /\ max_concurrent \in MIN_CONCURRENT .. (MIN_CONCURRENT + CONCURRENT_CHOICES - 1)
               /\ max_concurrent \in 2 .. 4
               /\ Cardinality(Running) <= max_concurrent)
    /\ [](\A j, k \in DOMAIN handles :
             j # k => handles[j].session_id # handles[k].session_id)
    /\ [][ \A k \in DOMAIN handles' :
              (\A j \in DOMAIN handles : handles[j].session_id # handles'[k].session_id)
              => /\ handles'[k].session_id \notin GivenIds
                 /\ handles'[k].session_id \in GivenIds' ]_vars
    /\ [](\A k \in DOMAIN handles :
             LET h == handles[k]
             IN  /\ h.sent # <<>> => h.sent[1] = "session_start"
                 /\ \A n \in 2 .. Len(h.sent) : h.sent[n] = "tool_use"
                 /\ ToolUsesOf(h) <= 12
                 /\ h.pc \in {"wind_down", "finished"}
                    => (ToolUsesOf(h) >= 4 /\ ToolUsesOf(h) <= 12))

\* With a limit of two, a session has ended and the third session, which had
\* to wait for its place, is running beside a session that has sent all of
\* its 12 tool_use messages.
C26_Witness ==
    /\ max_concurrent = 2
    /\ session_counter = 3
    /\ Cardinality(Running) = 2
    /\ \E k \in DOMAIN handles :
          /\ handles[k].session_id = MockSessionId(3)
          /\ handles[k].pc = "acting"
    /\ \E k \in DOMAIN handles :
          /\ handles[k].pc = "wind_down"
          /\ ToolUsesOf(handles[k]) = 12

====
